---- MODULE Spec2Model ----
(***************************************************************************)
(* The surface walker of tegra_swizzle (src/surface.rs): swizzle_surface   *)
(* and deswizzle_surface walk every array layer and mipmap of a combined   *)
(* buffer, one swizzle_mipmap call per (layer, mip).                       *)
(*                                                                         *)
(* A call is a run of the state machine: each action is one step of        *)
(* swizzle_surface_inner / swizzle_mipmap.  The helpers of the crate that  *)
(* surface.rs imports (div_round_up, block heights, mip sizes, the layer   *)
(* alignment and the block linear address) are operators.                  *)
(***************************************************************************)
EXTENDS Integers, Sequences, FiniteSets, TLC

(***************************************************************************)
(* Bounds of the model.                                                    *)
(***************************************************************************)
MaxArrayCount == 2
MaxMipmapCount == 2
MaxDepth == 2
MaxExtra == 3

(***************************************************************************)
(* The GOB: 64 bytes wide, 8 rows tall, 512 bytes.                         *)
(***************************************************************************)
GOB_WIDTH_IN_BYTES == 64
GOB_HEIGHT_IN_BYTES == 8
GOB_SIZE_IN_BYTES == 512

max(a, b) == IF a >= b THEN a ELSE b

RECURSIVE pow2(_)
pow2(n) == IF n = 0 THEN 1 ELSE 2 * pow2(n - 1)

\* x >> n on usize
shr(x, n) == x \div pow2(n)

div_round_up(x, d) == (x + d - 1) \div d

round_up(x, n) == div_round_up(x, n) * n

\* The legal block heights (enum BlockHeight).
BlockHeight == {1, 2, 4, 8, 16, 32}

\* The largest power of two in the ladder 1, 2, 4, ... that is <= n and <= cap.
RECURSIVE ladder(_, _, _)
ladder(n, cap, b) == IF 2 * b <= n /\ 2 * b <= cap THEN ladder(n, cap, 2 * b) ELSE b

\* crate::block_height_mip0: the block height inferred for mip 0 from the
\* height in blocks: the largest power of two <= the height in GOBs, at most 16.
block_height_mip0(height) == ladder(div_round_up(height, GOB_HEIGHT_IN_BYTES), 16, 1)

\* crate::mip_block_height: halve the mip 0 block height while the mip does
\* not reach into the upper half of the block.  A mip that fills exactly the
\* lower half takes the halved block height: the lengths that the tests of
\* surface.rs assert (147456 for 128x128, 8 mipmaps, 6 layers) need it.
RECURSIVE mip_block_height(_, _)
mip_block_height(mip_height, block_height) ==
    IF mip_height <= (block_height \div 2) * GOB_HEIGHT_IN_BYTES /\ block_height > 1
    THEN mip_block_height(mip_height, block_height \div 2)
    ELSE block_height

\* crate::blockdepth::block_depth: the same ladder on the depth, at most 32.
block_depth(depth) == ladder(depth, 32, 1)

width_in_gobs(width, bytes_per_pixel) == div_round_up(width * bytes_per_pixel, GOB_WIDTH_IN_BYTES)

height_in_blocks(height, block_height) == div_round_up(height, block_height * GOB_HEIGHT_IN_BYTES)

\* crate::swizzled_mip_size
swizzled_mip_size(width, height, depth, block_height, bytes_per_pixel) ==
    width_in_gobs(width, bytes_per_pixel)
        * (height_in_blocks(height, block_height) * block_height)
        * round_up(depth, block_depth(depth))
        * GOB_SIZE_IN_BYTES

\* crate::deswizzled_mip_size
deswizzled_mip_size(width, height, depth, bytes_per_pixel) ==
    width * height * depth * bytes_per_pixel

\* crate::arrays::align_layer_size: round the size up to a whole number of
\* blocks of GOBs, the block being the one of the base mip.
RECURSIVE gob_depth_for(_, _)
gob_depth_for(depth, gob_depth) ==
    IF depth <= gob_depth \div 2 /\ gob_depth > 1
    THEN gob_depth_for(depth, gob_depth \div 2)
    ELSE gob_depth

align_layer_size(layer_size, height, depth, block_height, depth_in_gobs) ==
    LET gob_height == mip_block_height(height, block_height)
        gob_depth == gob_depth_for(depth, depth_in_gobs)
        block_of_gobs_size == gob_height * gob_depth * GOB_SIZE_IN_BYTES
        size_in_blocks_of_gobs == layer_size \div block_of_gobs_size
    IN  IF layer_size # size_in_blocks_of_gobs * block_of_gobs_size
        THEN (size_in_blocks_of_gobs + 1) * block_of_gobs_size
        ELSE layer_size

(***************************************************************************)
(* The block linear address of the byte at (x, y, z), x in bytes.  Within  *)
(* a GOB the bits of the address are, from the top, x5 y2 y1 x4 y0 x3 x2   *)
(* x1 x0: a permutation of the 512 bytes of the GOB.                       *)
(***************************************************************************)
gob_offset(x, y) ==
      ((x % 64) \div 32) * 256
    + ((y % 8) \div 2) * 64
    + ((x % 32) \div 16) * 32
    + (y % 2) * 16
    + (x % 16)

slice_size(block_height, blk_depth, image_width_in_gobs, height) ==
    height_in_blocks(height, block_height)
        * (GOB_SIZE_IN_BYTES * block_height * blk_depth * image_width_in_gobs)

swizzled_address(x, y, z, width, height, block_height, blk_depth, bytes_per_pixel) ==
    LET image_width_in_gobs == width_in_gobs(width, bytes_per_pixel)
        block_size_in_bytes == GOB_SIZE_IN_BYTES * block_height * blk_depth
        block_height_in_bytes == GOB_HEIGHT_IN_BYTES * block_height
    IN    (z \div blk_depth) * slice_size(block_height, blk_depth, image_width_in_gobs, height)
        + (z % blk_depth) * GOB_SIZE_IN_BYTES * block_height
        + (y \div block_height_in_bytes) * block_size_in_bytes * image_width_in_gobs
        + ((y % block_height_in_bytes) \div GOB_HEIGHT_IN_BYTES) * GOB_SIZE_IN_BYTES
        + (x \div GOB_WIDTH_IN_BYTES) * block_size_in_bytes
        + gob_offset(x, y)

\* The address of the i-th byte of the tightly packed mip.
linear_to_swizzled(i, width, height, block_height, blk_depth, bytes_per_pixel) ==
    LET row == width * bytes_per_pixel
    IN  swizzled_address(i % row, (i \div row) % height, i \div (row * height),
                         width, height, block_height, blk_depth, bytes_per_pixel)

\* The coordinate (x, y, z) stored at a swizzled address: the GOB of the
\* address, the GOB's place in its block, the block's place in the mip.
swizzled_coordinate(a, width, height, block_height, blk_depth, bytes_per_pixel) ==
    LET image_width_in_gobs == width_in_gobs(width, bytes_per_pixel)
        o == a % GOB_SIZE_IN_BYTES
        gob == a \div GOB_SIZE_IN_BYTES
        in_block == gob % (block_height * blk_depth)
        block == gob \div (block_height * blk_depth)
        blocks_y == height_in_blocks(height, block_height)
        block_x == block % image_width_in_gobs
        block_y == (block \div image_width_in_gobs) % blocks_y
        block_z == block \div (image_width_in_gobs * blocks_y)
    IN  [x |-> block_x * GOB_WIDTH_IN_BYTES
                 + (o \div 256) * 32 + ((o \div 32) % 2) * 16 + (o % 16),
         y |-> (block_y * block_height + (in_block % block_height)) * GOB_HEIGHT_IN_BYTES
                 + ((o \div 64) % 4) * 2 + ((o \div 16) % 2),
         z |-> block_z * blk_depth + (in_block \div block_height)]

(***************************************************************************)
(* Vec<u8>.  A vector is its length and its bytes; a vector known to hold  *)
(* only zero bytes (vec![0u8; n]) may be kept as its length alone.         *)
(***************************************************************************)
Vec(bytes) == [len |-> Len(bytes), zeroed |-> FALSE, bytes |-> bytes]

ZeroVec(n) == [len |-> n, zeroed |-> TRUE, bytes |-> <<>>]

At(v, i) == IF v.zeroed THEN 0 ELSE v.bytes[i + 1]

\* Vec::resize(new_len, 0)
resize(v, new_len) ==
    IF v.zeroed
    THEN [v EXCEPT !.len = new_len]
    ELSE Vec([i \in 1..new_len |-> IF i <= v.len THEN v.bytes[i] ELSE 0])

\* crate::swizzle::swizzle_inner on src[src_from..] and dst[dst_from..]: dst
\* after the copy.  Swizzling writes destination[address(i)] = source[i] for
\* every byte i of the mip; deswizzling writes destination[i] =
\* source[address(i)].
swizzle_inner(deswizzle, width, height, depth, src, src_from, dst, dst_from, block_height, blk_depth, bytes_per_pixel) ==
    LET row == width * bytes_per_pixel
        linear == row * height * depth
    IN  IF src.zeroed /\ dst.zeroed
        THEN dst
        ELSE Vec([k \in 1..dst.len |->
            IF k <= dst_from
            THEN At(dst, k - 1)
            ELSE LET i == k - 1 - dst_from
                 IN  IF deswizzle
                     THEN IF i < linear
                          THEN At(src, src_from + linear_to_swizzled(
                                   i, width, height, block_height, blk_depth, bytes_per_pixel))
                          ELSE At(dst, k - 1)
                     ELSE LET c == swizzled_coordinate(
                                   i, width, height, block_height, blk_depth, bytes_per_pixel)
                          IN  IF c.x < row /\ c.y < height /\ c.z < depth
                              THEN At(src, src_from + (c.z * height + c.y) * row + c.x)
                              ELSE At(dst, k - 1)])

(***************************************************************************)
(* The arguments of a call (args), the direction of the call (DESWIZZLE),  *)
(* the locals of swizzle_surface_inner and swizzle_mipmap, the position in *)
(* the loops (layer, mip, pc) and the returned value (ret).  steps is the  *)
(* history of the swizzle_inner calls made so far; original is the linear  *)
(* input of the swizzle call whose output is being deswizzled.             *)
(***************************************************************************)
VARIABLES DESWIZZLE, args, source, result, src_offset, dst_offset, layer, mip, pc, ret,
          steps, original

vars == <<DESWIZZLE, args, source, result, src_offset, dst_offset, layer, mip, pc, ret,
          steps, original>>

\* BlockDim::uncompressed() and BlockDim::block_4x4()
uncompressed == [width |-> 1, height |-> 1, depth |-> 1]

block_4x4 == [width |-> 4, height |-> 4, depth |-> 1]

\* Option<BlockHeight>: None is 0.
None == 0

\* A walker that lets the argument decide for 3D surfaces too.
shadowed_block_height_mip0_override_first(depth, height, block_height, block_height_arg) ==
    IF block_height_arg # None
    THEN block_height_arg
    ELSE IF depth = 1 THEN block_height_mip0(div_round_up(height, block_height)) ELSE 1

\* The block height of mip 0 that the walker uses: the argument or the
\* inferred one for a 2D surface, one for a 3D surface.
shadowed_block_height_mip0(depth, height, block_height, block_height_arg) ==
    IF depth = 1
    THEN IF block_height_arg # None
         THEN block_height_arg
         ELSE block_height_mip0(div_round_up(height, block_height))
    ELSE 1

BlockHeightMip0(a) ==
    shadowed_block_height_mip0(a.depth, a.height, a.block_dim.height, a.block_height_mip0)

\* The closure align_to_layer.
align_to_layer(a, x) ==
    align_layer_size(x, max(div_round_up(a.height, a.block_dim.height), 1), 1,
                     BlockHeightMip0(a), 1)

\* A walker that gives every mip the extent of mip 0.
mip_extent_unshifted(dim, m, block) == max(div_round_up(dim, block), 1)

\* The extent of a mip along one axis, in blocks.
mip_extent(dim, m, block) == max(div_round_up(shr(dim, m), block), 1)

mip_width(a, m) == mip_extent(a.width, m, a.block_dim.width)

mip_height(a, m) == mip_extent(a.height, m, a.block_dim.height)

mip_depth(a, m) == mip_extent(a.depth, m, a.block_dim.depth)

MipBlockHeight(a, m) == mip_block_height(mip_height(a, m), BlockHeightMip0(a))

swizzled_size(a, m) ==
    swizzled_mip_size(mip_width(a, m), mip_height(a, m), mip_depth(a, m),
                      MipBlockHeight(a, m), a.bytes_per_pixel)

deswizzled_size(a, m) ==
    deswizzled_mip_size(mip_width(a, m), mip_height(a, m), mip_depth(a, m), a.bytes_per_pixel)

\* A walker that always adds the swizzled size.
added_size_swizzled(deswizzle, swizzled, deswizzled) == swizzled

\* What swizzle_mipmap adds to result.
added_size(deswizzle, swizzled, deswizzled) == IF deswizzle THEN deswizzled ELSE swizzled

\* A walker that always consumes the deswizzled size.
consumed_size_deswizzled(deswizzle, swizzled, deswizzled) == deswizzled

\* What swizzle_mipmap consumes of source.
consumed_size(deswizzle, swizzled, deswizzled) == IF deswizzle THEN swizzled ELSE deswizzled

\* Checks that refuse a source of exactly the needed length.
not_enough_data_inclusive(deswizzle, source_len, offset, swizzled, deswizzled) ==
    \/ deswizzle /\ source_len <= offset + swizzled
    \/ ~deswizzle /\ source_len <= offset + deswizzled

\* Checks that compare with the size of the other direction.
not_enough_data_swapped(deswizzle, source_len, offset, swizzled, deswizzled) ==
    \/ deswizzle /\ source_len < offset + deswizzled
    \/ ~deswizzle /\ source_len < offset + swizzled

\* The two checks that the source has enough space.
not_enough_data(deswizzle, source_len, offset, swizzled, deswizzled) ==
    \/ deswizzle /\ source_len < offset + swizzled
    \/ ~deswizzle /\ source_len < offset + deswizzled

\* A walker that does not skip the padding of the layers of the source.
aligned_src_offset_skipped(deswizzle, a, offset) == offset

\* The layer alignment of the source offset (deswizzling).
aligned_src_offset(deswizzle, a, offset) ==
    IF a.array_count > 1 /\ deswizzle THEN align_to_layer(a, offset) ELSE offset

\* A walker that pads a single layer too.
aligned_length_always(deswizzle, a, length) ==
    IF ~deswizzle THEN align_to_layer(a, length) ELSE length

\* A walker that does not pad the layers of the output.
aligned_length_never(deswizzle, a, length) == length

\* The layer alignment of the output length (swizzling).
aligned_length(deswizzle, a, length) ==
    IF a.array_count > 1 /\ ~deswizzle THEN align_to_layer(a, length) ELSE length

NoValue == [tag |-> "None", data |-> ZeroVec(0), expected_size |-> 0, actual_size |-> 0]

Ok(v) == [tag |-> "Ok", data |-> v, expected_size |-> 0, actual_size |-> 0]

Err(expected, actual) ==
    [tag |-> "Err", data |-> ZeroVec(0), expected_size |-> expected, actual_size |-> actual]

\* An empty vector kept the way v is kept.
Empty(v) == IF v.zeroed THEN ZeroVec(0) ELSE Vec(<<>>)

(***************************************************************************)
(* The layout of the two buffers, in closed form: where the input and the  *)
(* output of the mip m of the layer l start.                               *)
(***************************************************************************)
RECURSIVE SwizzledUpTo(_, _)
SwizzledUpTo(a, n) == IF n = 0 THEN 0 ELSE SwizzledUpTo(a, n - 1) + swizzled_size(a, n - 1)

RECURSIVE DeswizzledUpTo(_, _)
DeswizzledUpTo(a, n) == IF n = 0 THEN 0 ELSE DeswizzledUpTo(a, n - 1) + deswizzled_size(a, n - 1)

\* The multiple that align_to_layer rounds up to.
LayerAlignment(a) ==
    GOB_SIZE_IN_BYTES * mip_block_height(max(div_round_up(a.height, a.block_dim.height), 1),
                                         BlockHeightMip0(a))

\* The size of one layer of the swizzled buffer.
SwizzledLayerSize(a) ==
    IF a.array_count > 1
    THEN round_up(SwizzledUpTo(a, a.mipmap_count), LayerAlignment(a))
    ELSE SwizzledUpTo(a, a.mipmap_count)

SwizzledStart(a, l, m) == l * SwizzledLayerSize(a) + SwizzledUpTo(a, m)

DeswizzledStart(a, l, m) == l * DeswizzledUpTo(a, a.mipmap_count) + DeswizzledUpTo(a, m)

InputStart(deswizzle, a, l, m) ==
    IF deswizzle THEN SwizzledStart(a, l, m) ELSE DeswizzledStart(a, l, m)

InputSize(deswizzle, a, m) == IF deswizzle THEN swizzled_size(a, m) ELSE deswizzled_size(a, m)

OutputSize(deswizzle, a, m) == IF deswizzle THEN deswizzled_size(a, m) ELSE swizzled_size(a, m)

InputEnd(deswizzle, a, l, m) == InputStart(deswizzle, a, l, m) + InputSize(deswizzle, a, m)

\* The least source length with which the call succeeds.
Required(deswizzle, a) == InputEnd(deswizzle, a, a.array_count - 1, a.mipmap_count - 1)

\* The tightly packed size of the surface.
LinearSize(a) == a.array_count * DeswizzledUpTo(a, a.mipmap_count)

Pairs(a) == (0..(a.array_count - 1)) \X (0..(a.mipmap_count - 1))

(***************************************************************************)
(* swizzle_surface_inner as a function of its arguments: WalkState is the  *)
(* state of the walker after k turns of the inner loop.                    *)
(***************************************************************************)
RECURSIVE WalkState(_, _, _, _)
WalkState(deswizzle, a, src, k) ==
    IF k = 0
    THEN [result |-> Empty(src), src_offset |-> 0, err |-> FALSE]
    ELSE LET p == WalkState(deswizzle, a, src, k - 1)
             m == (k - 1) % a.mipmap_count
             swizzled == swizzled_size(a, m)
             deswizzled == deswizzled_size(a, m)
             resized == resize(p.result, p.result.len + added_size(deswizzle, swizzled, deswizzled))
             copied == swizzle_inner(deswizzle, mip_width(a, m), mip_height(a, m),
                                     mip_depth(a, m), src, p.src_offset, resized, p.result.len,
                                     MipBlockHeight(a, m), block_depth(mip_depth(a, m)),
                                     a.bytes_per_pixel)
             offset == p.src_offset + consumed_size(deswizzle, swizzled, deswizzled)
         IN  IF p.err
             THEN p
             ELSE IF not_enough_data(deswizzle, src.len, p.src_offset, swizzled, deswizzled)
             THEN [result |-> Empty(src), src_offset |-> p.src_offset, err |-> TRUE]
             ELSE IF m + 1 < a.mipmap_count
             THEN [result |-> copied, src_offset |-> offset, err |-> FALSE]
             ELSE [result |-> resize(copied, aligned_length(deswizzle, a, copied.len)),
                   src_offset |-> aligned_src_offset(deswizzle, a, offset), err |-> FALSE]

swizzle_surface_inner(deswizzle, a, src) ==
    LET w == WalkState(deswizzle, a, src, a.array_count * a.mipmap_count)
    IN  IF w.err THEN Err(0, src.len) ELSE Ok(w.result)

(***************************************************************************)
(* The calls of the model.                                                 *)
(***************************************************************************)
Surface(w, h, d, f, o, m, l) ==
    [width |-> w, height |-> h, depth |-> d, block_dim |-> f.block_dim,
     block_height_mip0 |-> o, bytes_per_pixel |-> f.bytes_per_pixel,
     mipmap_count |-> m, array_count |-> l]

\* Four bytes per pixel, and eight bytes per 4x4 block.
Formats ==
    {[block_dim |-> uncompressed, bytes_per_pixel |-> 4],
     [block_dim |-> block_4x4, bytes_per_pixel |-> 8]}

\* The surfaces whose bytes are followed, width x height x depth: less than
\* a GOB, several GOBs in width and in height, and a volume.
Sizes == {<<3, 2, 1>>, <<20, 9, 1>>, <<5, 9, 2>>}

Overrides == {None, 1, 4}

Calls ==
    {Surface(s[1], s[2], s[3], f, o, m, l) :
        s \in Sizes, f \in Formats, o \in Overrides,
        m \in 1..MaxMipmapCount, l \in 1..MaxArrayCount}

\* The bytes of a source: pattern 0 counts up, pattern p has the step 2p + 1.
Patterns == {0, 1}

Pattern(p, n) == [i \in 1..n |-> (p + (i - 1) * (2 * p + 1)) % 256]

\* The sources of the swizzle_surface calls: a tightly packed surface in
\* every pattern, and one that is a byte short of its first mip.
Sources(a) ==
    {Vec(Pattern(p, LinearSize(a))) : p \in Patterns}
    \cup {Vec(Pattern(0, deswizzled_size(a, 0) - 1))}

Entry(deswizzle, a, src) ==
    /\ DESWIZZLE = deswizzle
    /\ args = a
    /\ source = src
    /\ result = Empty(src)
    /\ src_offset = 0
    /\ dst_offset = 0
    /\ layer = 0
    /\ mip = 0
    /\ pc = "mip"
    /\ ret = NoValue
    /\ steps = <<>>
    /\ original = Empty(src)

\* swizzle_surface on a surface of bytes.
Init == \E a \in Calls : \E src \in Sources(a) : Entry(FALSE, a, src)

(***************************************************************************)
(* The calls of the tests' helpers swizzle_length_3d and                   *)
(* deswizzle_length_3d: the source is vec![0u8; source_length].            *)
(***************************************************************************)
Widths == {1, 20, 100}

Heights == {2, 9, 17}

LengthOverrides == {None, 1, 2, 4, 32}

LengthCalls ==
    {Surface(w, h, d, f, o, m, l) :
        w \in Widths, h \in Heights, d \in 1..MaxDepth, f \in Formats, o \in LengthOverrides,
        m \in 1..MaxMipmapCount, l \in 1..MaxArrayCount}

\* Every length that is a byte short of some mip, the least length that is
\* enough, and a longer one.
ZeroSources(deswizzle, a) ==
    {ZeroVec(InputEnd(deswizzle, a, lm[1], lm[2]) - 1) : lm \in Pairs(a)}
    \cup {ZeroVec(Required(deswizzle, a) + e) : e \in {0, MaxExtra}}

\* The table of lengths of real textures: the lengths asserted by
\* swizzle_surface_arrays_no_mipmaps_length, swizzle_surface_arrays_mipmaps_length
\* and swizzle_surface_nutexb_length and their deswizzle twins.
Rows ==
    {[width |-> 16, height |-> 16, depth |-> 1, bpp |-> 4, compressed |-> FALSE,
      layers |-> 1, mips |-> 6, input_len |-> 6144, swizzled_len |-> 6144],
     [width |-> 16, height |-> 16, depth |-> 1, bpp |-> 8, compressed |-> TRUE,
      layers |-> 1, mips |-> 6, input_len |-> 768, swizzled_len |-> 3072],
     [width |-> 128, height |-> 128, depth |-> 1, bpp |-> 16, compressed |-> TRUE,
      layers |-> 8, mips |-> 6, input_len |-> 131232, swizzled_len |-> 147456],
     [width |-> 100, height |-> 100, depth |-> 1, bpp |-> 8, compressed |-> TRUE,
      layers |-> 7, mips |-> 1, input_len |-> 6864, swizzled_len |-> 12800],
     [width |-> 1536, height |-> 1024, depth |-> 1, bpp |-> 16, compressed |-> TRUE,
      layers |-> 11, mips |-> 1, input_len |-> 2097184, swizzled_len |-> 2099712],
     [width |-> 8192, height |-> 2048, depth |-> 1, bpp |-> 16, compressed |-> TRUE,
      layers |-> 1, mips |-> 1, input_len |-> 16777216, swizzled_len |-> 16777216]}

\* The call of swizzle_length / deswizzle_length for a row, with the given
\* mipmap_count and array_count.
RowCall(r, mipmap_count, array_count) ==
    [width |-> r.width, height |-> r.height, depth |-> r.depth,
     block_dim |-> IF r.compressed THEN block_4x4 ELSE uncompressed,
     block_height_mip0 |-> None, bytes_per_pixel |-> r.bpp,
     mipmap_count |-> mipmap_count, array_count |-> array_count]

RowSource(deswizzle, r) == ZeroVec(IF deswizzle THEN r.swizzled_len ELSE r.input_len)

\* swizzle_surface or deswizzle_surface on a zero filled source: a call of the
\* model, or a row of the table with its two counts in either order.
InitLength ==
    \E deswizzle \in BOOLEAN :
        \/ \E a \in LengthCalls : \E src \in ZeroSources(deswizzle, a) : Entry(deswizzle, a, src)
        \/ \E r \in Rows :
              \/ Entry(deswizzle, RowCall(r, r.mips, r.layers), RowSource(deswizzle, r))
              \/ Entry(deswizzle, RowCall(r, r.layers, r.mips), RowSource(deswizzle, r))

\* The entry of swizzle_surface_inner.
Call(deswizzle, a, src) ==
    /\ DESWIZZLE' = deswizzle
    /\ args' = a
    /\ source' = src
    /\ result' = Empty(src)
    /\ src_offset' = 0
    /\ dst_offset' = 0
    /\ layer' = 0
    /\ mip' = 0
    /\ pc' = "mip"
    /\ ret' = NoValue
    /\ steps' = <<>>

\* swizzle_mipmap up to result.resize.
Resize ==
    /\ pc = "mip"
    /\ dst_offset' = result.len
    /\ result' = resize(result, result.len + added_size(DESWIZZLE, swizzled_size(args, mip),
                                                        deswizzled_size(args, mip)))
    /\ pc' = "check"
    /\ UNCHANGED <<DESWIZZLE, args, source, src_offset, layer, mip, ret, steps, original>>

\* The source is too short: the error is returned through the ? of the walker
\* and result is dropped.
NotEnoughData ==
    /\ pc = "check"
    /\ not_enough_data(DESWIZZLE, source.len, src_offset, swizzled_size(args, mip),
                       deswizzled_size(args, mip))
    /\ ret' = Err(0, source.len)
    /\ result' = Empty(result)
    /\ pc' = "done"
    /\ UNCHANGED <<DESWIZZLE, args, source, src_offset, dst_offset, layer, mip, steps, original>>

\* The source has enough space.
EnoughData ==
    /\ pc = "check"
    /\ ~not_enough_data(DESWIZZLE, source.len, src_offset, swizzled_size(args, mip),
                        deswizzled_size(args, mip))
    /\ pc' = "copy"
    /\ UNCHANGED <<DESWIZZLE, args, source, result, src_offset, dst_offset, layer, mip, ret,
                   steps, original>>

\* The rest of swizzle_mipmap: slice the buffers, swizzle_inner, advance the
\* source offset; then the next mip of the inner loop.  A slice out of range
\* panics.
Copy ==
    /\ pc = "copy"
    /\ LET swizzled == swizzled_size(args, mip)
           deswizzled == deswizzled_size(args, mip)
           consumed == consumed_size(DESWIZZLE, swizzled, deswizzled)
           produced == added_size(DESWIZZLE, swizzled, deswizzled)
       IN  IF \/ src_offset > source.len
              \/ dst_offset > result.len
              \/ source.len - src_offset < consumed
              \/ result.len - dst_offset < produced
           THEN /\ pc' = "panic"
                /\ UNCHANGED <<result, src_offset, mip, steps>>
           ELSE /\ result' = swizzle_inner(DESWIZZLE, mip_width(args, mip), mip_height(args, mip),
                                           mip_depth(args, mip), source, src_offset, result,
                                           dst_offset, MipBlockHeight(args, mip),
                                           block_depth(mip_depth(args, mip)),
                                           args.bytes_per_pixel)
                /\ src_offset' = src_offset + consumed
                /\ steps' = Append(steps, [layer |-> layer, mip |-> mip,
                                           src_offset |-> src_offset, input_size |-> consumed,
                                           dst_offset |-> dst_offset,
                                           output_size |-> result.len - dst_offset,
                                           block_height |-> MipBlockHeight(args, mip)])
                /\ IF mip + 1 < args.mipmap_count
                   THEN mip' = mip + 1 /\ pc' = "mip"
                   ELSE mip' = mip /\ pc' = "align"
    /\ UNCHANGED <<DESWIZZLE, args, source, dst_offset, layer, ret, original>>

\* The end of the body of the outer loop: the alignment for array layers,
\* then the next layer.
AlignLayer ==
    /\ pc = "align"
    /\ src_offset' = aligned_src_offset(DESWIZZLE, args, src_offset)
    /\ result' = resize(result, aligned_length(DESWIZZLE, args, result.len))
    /\ layer' = layer + 1
    /\ mip' = 0
    /\ pc' = IF layer + 1 < args.array_count THEN "mip" ELSE "return"
    /\ UNCHANGED <<DESWIZZLE, args, source, dst_offset, ret, steps, original>>

\* Ok(result): result is moved into the returned value.
Return ==
    /\ pc = "return"
    /\ ret' = Ok(result)
    /\ result' = Empty(result)
    /\ pc' = "done"
    /\ UNCHANGED <<DESWIZZLE, args, source, src_offset, dst_offset, layer, mip,
                   steps, original>>

\* deswizzle_surface on the output of a swizzle_surface call, with the
\* arguments of that call.
Deswizzle ==
    /\ pc = "done"
    /\ ~DESWIZZLE
    /\ ret.tag = "Ok"
    /\ Call(TRUE, args, ret.data)
    /\ original' = source

Next == Resize \/ NotEnoughData \/ EnoughData \/ Copy \/ AlignLayer \/ Return \/ Deswizzle

Spec == Init /\ [][Next]_vars

SpecLength == InitLength /\ [][Next]_vars

(***************************************************************************)
(* The properties.  The sizes they name are written out from the           *)
(* descriptor, not taken from the walker.                                  *)
(***************************************************************************)
Succeeded == pc = "done" /\ ret.tag = "Ok"

Failed == pc = "done" /\ ret.tag = "Err"

\* w_m = max(1, div_round_up(width >> m, block_dim.width)), and so on.
Extent(dim, m, block) ==
    LET e == div_round_up(dim \div pow2(m), block) IN IF e < 1 THEN 1 ELSE e

LinearMipSize(a, m) ==
    Extent(a.width, m, a.block_dim.width) * Extent(a.height, m, a.block_dim.height)
        * Extent(a.depth, m, a.block_dim.depth) * a.bytes_per_pixel

RECURSIVE LinearMipSum(_, _)
LinearMipSum(a, n) == IF n = 0 THEN 0 ELSE LinearMipSum(a, n - 1) + LinearMipSize(a, n - 1)

PackedSize(a) == a.array_count * LinearMipSum(a, a.mipmap_count)

\* The (layer, mip) pairs in the order of the walk, counted from 0.
PairIndex(a, l, m) == l * a.mipmap_count + m

\* The pairs whose input does not fit in a source of n bytes.
Short(deswizzle, a, n) == {lm \in Pairs(a) : InputEnd(deswizzle, a, lm[1], lm[2]) > n}

FirstShort(deswizzle, a, n) ==
    CHOOSE lm \in Short(deswizzle, a, n) :
        \A other \in Short(deswizzle, a, n) :
            PairIndex(a, lm[1], lm[2]) <= PairIndex(a, other[1], other[2])

\* C1: deswizzle_surface on the output of swizzle_surface, with the same
\* descriptor, succeeds and returns the tightly packed linear input byte for
\* byte, also with several layers (padding between them) and with depth > 1.
RoundTripIdentity ==
    (pc = "done" /\ DESWIZZLE /\ original.len = PackedSize(args))
        => (ret.tag = "Ok" /\ ret.data = original)

RoundTripIdentityWitness ==
    /\ Succeeded /\ DESWIZZLE
    /\ original.len = PackedSize(args) /\ ret.data = original
    /\ args.array_count > 1 /\ args.mipmap_count > 1
    /\ source.len > args.array_count * SwizzledUpTo(args, args.mipmap_count)

\* C2: a call fails with NotEnoughData, and returns no buffer, exactly when
\* some (layer, mip) has src_offset + input_size > source.len(); it succeeds
\* exactly when every pair fits; and no mip from the first failing one on is
\* processed.
NotEnoughDataExactly ==
    pc = "done" =>
        /\ ret.tag = "Err" <=> Short(DESWIZZLE, args, source.len) # {}
        /\ ret.tag = "Ok" <=> Short(DESWIZZLE, args, source.len) = {}
        /\ ret.tag = "Err" =>
              /\ ret.data.len = 0
              /\ LET lm == FirstShort(DESWIZZLE, args, source.len)
                 IN  Len(steps) = PairIndex(args, lm[1], lm[2])

NotEnoughDataExactlyWitness ==
    /\ Failed
    /\ Len(steps) > 0
    /\ Len(steps) + 1 < args.array_count * args.mipmap_count
    /\ layer > 0

\* C3: the length of the output of swizzle_surface is decided by the
\* descriptor: the sum of the swizzled sizes of the mips of every layer, each
\* layer padded to the layer alignment when array_count > 1, and not padded
\* when array_count = 1.
SwizzledLengthFromDescriptor ==
    (Succeeded /\ ~DESWIZZLE) =>
        ret.data.len =
            IF args.array_count > 1
            THEN args.array_count
                    * round_up(SwizzledUpTo(args, args.mipmap_count), LayerAlignment(args))
            ELSE SwizzledUpTo(args, args.mipmap_count)

SwizzledLengthFromDescriptorWitness ==
    /\ Succeeded /\ ~DESWIZZLE
    /\ args.array_count > 1
    /\ ret.data.len > args.array_count * SwizzledUpTo(args, args.mipmap_count)
    /\ ~ret.data.zeroed /\ source.bytes[1] = 1

\* C4: the output of deswizzle_surface is tightly packed: array_count times
\* the sum of w_m * h_m * d_m * bytes_per_pixel over the mips, however long
\* the source is.
DeswizzledLengthPacked ==
    (Succeeded /\ DESWIZZLE) => ret.data.len = PackedSize(args)

DeswizzledLengthPackedWitness ==
    /\ Succeeded /\ DESWIZZLE
    /\ args.array_count > 1 /\ args.mipmap_count > 1
    /\ source.len > Required(TRUE, args)
    /\ ret.data.len = PackedSize(args)
    /\ ret.data.len < source.len

\* C5: the walker takes the (layer, mip) pairs in lexicographic order, each
\* once; the regions of the source and of the destination follow one another,
\* with the layer padding in the destination (swizzling) or in the source
\* (deswizzling) when array_count > 1; a successful call makes
\* array_count * mipmap_count steps.
WalkOrder ==
    /\ Len(steps) <= args.array_count * args.mipmap_count
    /\ Succeeded => Len(steps) = args.array_count * args.mipmap_count
    /\ \A i \in 1..Len(steps) :
          LET s == steps[i]
          IN  /\ s.layer = (i - 1) \div args.mipmap_count
              /\ s.mip = (i - 1) % args.mipmap_count
              /\ s.input_size = InputSize(DESWIZZLE, args, s.mip)
              /\ s.output_size = OutputSize(DESWIZZLE, args, s.mip)
              /\ i = 1 => s.src_offset = 0 /\ s.dst_offset = 0
              /\ i > 1 =>
                    LET p == steps[i - 1]
                        src_end == p.src_offset + InputSize(DESWIZZLE, args, p.mip)
                        dst_end == p.dst_offset + OutputSize(DESWIZZLE, args, p.mip)
                        padded == s.mip = 0 /\ args.array_count > 1
                    IN  /\ s.src_offset = IF padded /\ DESWIZZLE
                                          THEN align_to_layer(args, src_end) ELSE src_end
                        /\ s.dst_offset = IF padded /\ ~DESWIZZLE
                                          THEN align_to_layer(args, dst_end) ELSE dst_end

WalkOrderWitness ==
    /\ Succeeded /\ ~DESWIZZLE
    /\ args.array_count > 1 /\ args.mipmap_count > 1
    /\ Len(steps) = args.array_count * args.mipmap_count
    /\ LET p == steps[args.mipmap_count]
           s == steps[args.mipmap_count + 1]
       IN  s.dst_offset > p.dst_offset + p.output_size /\ s.layer = 1 /\ s.mip = 0

\* The linear source of one layer.
LayerSpan(a, src, l) ==
    LET size == LinearMipSum(a, a.mipmap_count)
    IN  Vec(SubSeq(src.bytes, l * size + 1, (l + 1) * size))

\* One layer swizzled on its own and padded to the layer alignment.
PaddedLayer(a, src, l) ==
    LET alone == swizzle_surface_inner(FALSE, [a EXCEPT !.array_count = 1], LayerSpan(a, src, l))
    IN  resize(alone.data, align_to_layer(a, alone.data.len))

RECURSIVE PaddedLayers(_, _, _)
PaddedLayers(a, src, n) ==
    IF n = 0 THEN <<>> ELSE PaddedLayers(a, src, n - 1) \o PaddedLayer(a, src, n - 1).bytes

\* C6: with several layers, the output of swizzle_surface is the
\* concatenation, in layer order, of each layer's span swizzled on its own
\* with array_count = 1 and padded to the layer alignment.
LayerSymmetry ==
    (Succeeded /\ ~DESWIZZLE /\ args.array_count > 1 /\ source.len = PackedSize(args)
               /\ ~source.zeroed)
        => ret.data = Vec(PaddedLayers(args, source, args.array_count))

LayerSymmetryWitness ==
    /\ Succeeded /\ ~DESWIZZLE /\ ~source.zeroed
    /\ args.array_count > 1 /\ args.mipmap_count > 1
    /\ source.len = PackedSize(args)
    /\ ret.data.len > args.array_count * SwizzledUpTo(args, args.mipmap_count)
    /\ ret.data = Vec(PaddedLayers(args, source, args.array_count))

\* The rows under the headings of the table: array_count is the column
\* layers and mipmap_count is the column mips.
AsRead(r) == RowCall(r, r.mips, r.layers)

\* The rows as the tests' helpers pass them on: the column layers is the
\* mipmap_count and the column mips is the array_count.
AsPassed(r) == RowCall(r, r.layers, r.mips)

RowLength(deswizzle, r) == IF deswizzle THEN r.input_len ELSE r.swizzled_len

\* C7 as stated: for every row of the table, with array_count = layers and
\* mipmap_count = mips, swizzle_surface on input len zero bytes returns
\* swizzled len bytes and deswizzle_surface on swizzled len zero bytes returns
\* input len bytes.
TableLengthsAsRead ==
    \A r \in Rows :
        (pc = "done" /\ args = AsRead(r) /\ source = RowSource(DESWIZZLE, r))
            => (ret.tag = "Ok" /\ ret.data.len = RowLength(DESWIZZLE, r))

\* C7, amended: the same with mipmap_count = layers and array_count = mips,
\* the order in which swizzle_length_3d and deswizzle_length_3d pass the two
\* counts to swizzle_surface and deswizzle_surface.
TableLengthsAsPassed ==
    \A r \in Rows :
        (pc = "done" /\ args = AsPassed(r) /\ source = RowSource(DESWIZZLE, r))
            => (ret.tag = "Ok" /\ ret.data.len = RowLength(DESWIZZLE, r))

TableLengthsAsPassedWitness ==
    /\ Succeeded /\ ~DESWIZZLE
    /\ args.width = 128 /\ args.mipmap_count = 8 /\ args.array_count = 6
    /\ source.len = 131232
    /\ ret.data.len = 147456

\* C8: with depth > 1 every mip has the block height 1 and the layers are
\* aligned with the block height 1 (so nothing is padded), and the returned
\* value is the one of the call without an override, whatever the override;
\* with depth = 1 the block heights come from the override when there is one,
\* and otherwise from div_round_up(height, block_dim.height).
BlockHeightOfVolumes ==
    pc = "done" =>
        /\ args.depth > 1 =>
              /\ \A i \in 1..Len(steps) : steps[i].block_height = 1
              /\ (Succeeded /\ ~DESWIZZLE) =>
                    ret.data.len = args.array_count * SwizzledUpTo(args, args.mipmap_count)
              /\ \A o \in {None} \cup BlockHeight :
                    (args.block_height_mip0 # o /\ None \in {o, args.block_height_mip0}) =>
                        ret = swizzle_surface_inner(
                                  DESWIZZLE, [args EXCEPT !.block_height_mip0 = o], source)
        /\ args.depth = 1 =>
              \A i \in 1..Len(steps) :
                  steps[i].block_height =
                      mip_block_height(
                          Extent(args.height, steps[i].mip, args.block_dim.height),
                          IF args.block_height_mip0 # None
                          THEN args.block_height_mip0
                          ELSE block_height_mip0(div_round_up(args.height, args.block_dim.height)))

BlockHeightOfVolumesWitness ==
    /\ Succeeded /\ ~DESWIZZLE
    /\ args.depth > 1 /\ args.height = 9 /\ args.block_height_mip0 = 4
    /\ args.block_dim = uncompressed
    /\ args.array_count > 1
    /\ steps[1].block_height = 1
    /\ ret = swizzle_surface_inner(FALSE, [args EXCEPT !.block_height_mip0 = None], source)

\* C9: a NotEnoughData error carries the size that was needed at the failing
\* mip in expected_size and source.len() in actual_size.
ExpectedSizeAccurate ==
    Failed =>
        /\ LET lm == FirstShort(DESWIZZLE, args, source.len)
           IN  ret.expected_size = InputEnd(DESWIZZLE, args, lm[1], lm[2])
        /\ ret.actual_size = source.len

\* C10: whenever swizzle_mipmap slices its buffers, the source offset and the
\* end of the input are within the source and the destination slice has the
\* size of the output of the mip; no slice is out of range.
SliceBounds ==
    /\ pc # "panic"
    /\ pc = "copy" =>
          /\ src_offset <= source.len
          /\ src_offset + InputSize(DESWIZZLE, args, mip) <= source.len
          /\ dst_offset <= result.len
          /\ result.len - dst_offset = OutputSize(DESWIZZLE, args, mip)

\* deswizzle_surface has succeeded with the source offset aligned past the
\* end of the source.
SliceBoundsWitness ==
    /\ Succeeded /\ DESWIZZLE
    /\ args.array_count > 1
    /\ src_offset > source.len

====
